---- MODULE Spec2Model ----
(***************************************************************************)
(* Model of src/main.py: a FastAPI relay between the Messenger webhook and *)
(* the DX backend.  The shared state is the module-level dict sender_map   *)
(* (chat_id -> {sender_id, last_active}); it is written by the POST        *)
(* /webhook handler, read by the POST /dx-result handler and pruned by the *)
(* cleanup_sessions task that lifespan() starts and cancels.               *)
(*                                                                         *)
(* Scheduling.  Everything runs on one asyncio event loop.  The handlers   *)
(* are `async def` and their only await is `await request.json()` at the   *)
(* top; requests.post is a blocking call.  The body of one loop iteration  *)
(* of cleanup_sessions (lines 31-38) has no await either.  So a handler    *)
(* runs from its first access of sender_map to its return without any      *)
(* other coroutine running, and so does one cleanup pass.  The webhook     *)
(* handler is stepped one messaging event at a time (handler = "webhook"   *)
(* while the loop is blocked in it), because wall-clock time passes inside *)
(* each blocking requests.post.                                            *)
(***************************************************************************)
EXTENDS Integers, Sequences, FiniteSets, TLC

VARIABLES
    sender_map,    \* main.py:23  the dict chat_id -> [sender_id, last_active]
    clock,         \* the value time.time() returns now (wall clock, seconds)
    slept,         \* monotonic seconds since cleanup_sessions began its sleep
    cleanup_task,  \* state of the asyncio task running cleanup_sessions
    app,           \* lifespan phase of the FastAPI application
    handler,       \* the request handler the event loop is blocked in
    pending,       \* messaging events the running webhook POST has yet to visit
    errors,        \* "DX API Error" lines the running webhook POST has logged
    last           \* what the latest step did (its inputs and its outputs)

vars == <<sender_map, clock, slept, cleanup_task, app, handler, pending, errors, last>>

----------------------------------------------------------------------------
(* Program constants *)

SESSION_TIMEOUT == 300
SLEEP_INTERVAL == 5
VERIFY_TOKEN == "myverifytoken"

(* Bounds of the model *)

MaxTime == 301
MaxEvents == 2

(* Python's None *)
NONE == "None"

(* sender ids a messaging event can carry; the code does not reject "" *)
Ids == {"", "u1", "u2"}

(* time a blocking requests.post takes *)
CallTimes == {0, SESSION_TIMEOUT \div 2}

(* the instants at which the model reads the clock: sums of half a timeout, *)
(* a timeout and a timeout plus one second, up to MaxTime                   *)
Instants ==
    LET half == SESSION_TIMEOUT \div 2
        k == 0..(MaxTime \div half)
    IN  {t \in 0..MaxTime :
            \E a \in k, b \in k, c \in k :
                t = a * half + b * SESSION_TIMEOUT + c * (SESSION_TIMEOUT + 1)}

(* what requests.post(...) followed by raise_for_status() does *)
Outcomes == {"success", "network_error", "http_error"}

Min(a, b) == IF a < b THEN a ELSE b

----------------------------------------------------------------------------
(* The dict and its operations *)

(* a value no session equals: what sender_map.get returns for a missing key *)
NoneInfo == [sender_id |-> NONE, last_active |-> -1]

(* sender_map.get(chat_id) *)
DictGet(m, chat_id) == IF chat_id \in DOMAIN m THEN m[chat_id] ELSE NoneInfo

(* variant: the `if not sender_id` test is missing *)
Falsy_Never(x) == FALSE

(* Python truth value of sender_id in `if not sender_id` *)
Falsy(x) == x \in {NONE, ""}

(* variant: sender_map.setdefault(chat_id, {...}), the first write is kept *)
Upsert_SetDefault(m, chat_id, sender_id, now) ==
    IF chat_id \in DOMAIN m
    THEN m
    ELSE [c \in DOMAIN m \cup {chat_id} |->
            IF c = chat_id THEN [sender_id |-> sender_id, last_active |-> now]
                           ELSE m[c]]

(* variant: sender_map = {chat_id: {...}}, the dict is rebound *)
Upsert_Rebind(m, chat_id, sender_id, now) ==
    [c \in {chat_id} |-> [sender_id |-> sender_id, last_active |-> now]]

(* sender_map[chat_id] = {"sender_id": sender_id, "last_active": now} *)
Upsert(m, chat_id, sender_id, now) ==
    [c \in DOMAIN m \cup {chat_id} |->
        IF c = chat_id THEN [sender_id |-> sender_id, last_active |-> now]
                       ELSE m[c]]

(* variant: `>=` in the comparison with SESSION_TIMEOUT *)
Expired_AtTimeout(m, now) ==
    {c \in DOMAIN m : now - m[c].last_active >= SESSION_TIMEOUT}

(* variant: the operands of the subtraction are exchanged *)
Expired_Reversed(m, now) ==
    {c \in DOMAIN m : m[c].last_active - now > SESSION_TIMEOUT}

(* the list comprehension of cleanup_sessions *)
Expired(m, now) == {c \in DOMAIN m : now - m[c].last_active > SESSION_TIMEOUT}

(* variant: the expired ids are logged and not popped *)
RemoveAll_LogOnly(m, expired) == m

(* variant: the loop over expired leaves after its first pop *)
RemoveAll_FirstOnly(m, expired) ==
    IF expired = {}
    THEN m
    ELSE LET first == CHOOSE c \in expired : TRUE
         IN  [c \in DOMAIN m \ {first} |-> m[c]]

(* for chat_id in expired: sender_map.pop(chat_id, None) *)
RemoveAll(m, expired) == [c \in DOMAIN m \ expired |-> m[c]]

(* one pass of the while loop of cleanup_sessions, up to the sleep *)
CleanupPass(m, now) == RemoveAll(m, Expired(m, now))

(* variant: no try statement around the backend call *)
DxCallRaises_Uncaught(outcome) == TRUE

(* try: requests.post(...); raise_for_status() except Exception: log.   *)
(* TRUE when the exception of a failed call leaves the try statement.   *)
DxCallRaises(outcome) == FALSE

(* variant: lifespan returns without cancelling the task *)
Cancel_Missing(task) == task

(* cleanup_task.cancel() *)
Cancel(task) == "cancelled"

(* variant: the session is popped once its reply has been attempted *)
DxResult_Pop(m, chat_id, text, outcome) ==
    LET sender_info == DictGet(m, chat_id)
        sender_id == IF sender_info # NoneInfo THEN sender_info.sender_id ELSE NONE
    IN  IF Falsy(sender_id)
        THEN [store |-> m, status |-> "missing-sender", attempts |-> 0,
              recipient |-> NONE, text |-> NONE, outcome |-> NONE]
        ELSE [store |-> [c \in DOMAIN m \ {chat_id} |-> m[c]],
              status |-> "received", attempts |-> 1,
              recipient |-> sender_id, text |-> text, outcome |-> outcome]

(* The body of receive_dx_result after `await request.json()`: the store it *)
(* leaves, the status it returns and the reply it attempts.                 *)
DxResult(m, chat_id, text, outcome) ==
    LET sender_info == DictGet(m, chat_id)
        sender_id == IF sender_info # NoneInfo THEN sender_info.sender_id ELSE NONE
    IN  IF Falsy(sender_id)
        THEN [store |-> m, status |-> "missing-sender", attempts |-> 0,
              recipient |-> NONE, text |-> NONE, outcome |-> NONE]
        ELSE [store |-> m, status |-> "received", attempts |-> 1,
              recipient |-> sender_id, text |-> text, outcome |-> outcome]

----------------------------------------------------------------------------
(* The record a step leaves in `last` *)

Step(op) ==
    [op |-> op, chat_id |-> NONE, sender_id |-> NONE, now |-> 0,
     before |-> NoneInfo, outcome |-> NONE, attempts |-> 0, errors |-> 0,
     evicted |-> {}, status |-> NONE, body |-> NONE,
     mode |-> NONE, token |-> NONE, challenge |-> NONE]

(* the monotonic time of the event loop moves with every passage of time *)
Sleep(d) == IF cleanup_task = "sleeping" THEN Min(slept + d, SLEEP_INTERVAL) ELSE slept

----------------------------------------------------------------------------
Init ==
    /\ sender_map = << >>
    /\ clock = 0
    /\ slept = 0
    /\ cleanup_task = "not_started"
    /\ app = "created"
    /\ handler = "idle"
    /\ pending = 0
    /\ errors = 0
    /\ last = Step("init")

(* lifespan, up to the yield: cleanup_task = asyncio.create_task(...) *)
Startup ==
    /\ app = "created"
    /\ app' = "serving"
    /\ cleanup_task' = "scheduled"
    /\ last' = Step("startup")
    /\ UNCHANGED <<sender_map, clock, slept, handler, pending, errors>>

(* lifespan, after the yield *)
Shutdown ==
    /\ app = "serving"
    /\ handler = "idle"
    /\ app' = "stopped"
    /\ cleanup_task' = (IF cleanup_task \in {"scheduled", "sleeping"}
                        THEN Cancel(cleanup_task) ELSE cleanup_task)
    /\ last' = Step("shutdown")
    /\ UNCHANGED <<sender_map, clock, slept, handler, pending, errors>>

(* one iteration of `while True` in cleanup_sessions, lines 31-39: the pass *)
(* and the start of the sleep                                               *)
cleanup_sessions ==
    /\ handler = "idle"
    /\ \/ cleanup_task = "scheduled"
       \/ cleanup_task = "sleeping" /\ slept >= SLEEP_INTERVAL
    /\ LET now == clock
       IN  /\ sender_map' = CleanupPass(sender_map, now)
           /\ last' = [Step("sweep") EXCEPT
                          !.now = now,
                          !.evicted = DOMAIN sender_map \ DOMAIN CleanupPass(sender_map, now)]
    /\ cleanup_task' = "sleeping"
    /\ slept' = 0
    /\ UNCHANGED <<clock, app, handler, pending, errors>>

(* variant: the token is compared and hub.mode is not *)
webhook_get_TokenOnly(mode, token, challenge) ==
    /\ app = "serving"
    /\ handler = "idle"
    /\ last' = IF token = VERIFY_TOKEN
               THEN [Step("verify") EXCEPT !.status = "200", !.body = challenge,
                        !.mode = mode, !.token = token, !.challenge = challenge]
               ELSE [Step("verify") EXCEPT !.status = "403", !.body = "Forbidden",
                        !.mode = mode, !.token = token, !.challenge = challenge]
    /\ UNCHANGED <<sender_map, clock, slept, cleanup_task, app, handler, pending, errors>>

(* GET /webhook *)
webhook_get(mode, token, challenge) ==
    /\ app = "serving"
    /\ handler = "idle"
    /\ last' = IF mode = "subscribe" /\ token = VERIFY_TOKEN
               THEN [Step("verify") EXCEPT !.status = "200", !.body = challenge,
                        !.mode = mode, !.token = token, !.challenge = challenge]
               ELSE [Step("verify") EXCEPT !.status = "403", !.body = "Forbidden",
                        !.mode = mode, !.token = token, !.challenge = challenge]
    /\ UNCHANGED <<sender_map, clock, slept, cleanup_task, app, handler, pending, errors>>

(* POST /webhook, lines 78-83: the body is read and the loops are entered. *)
(* n is the number of messaging events of all entries together.            *)
webhook_post(object, n) ==
    /\ app = "serving"
    /\ handler = "idle"
    /\ handler' = "webhook"
    /\ pending' = IF object = "page" THEN n ELSE 0
    /\ errors' = 0
    /\ last' = [Step("webhook_post") EXCEPT !.body = object]
    /\ UNCHANGED <<sender_map, clock, slept, cleanup_task, app>>

(* variant: `break` in the place of `continue` *)
webhook_skip_Break ==
    /\ handler = "webhook"
    /\ pending > 0
    /\ pending' = 0
    /\ last' = Step("skipped")
    /\ UNCHANGED <<sender_map, clock, slept, cleanup_task, app, handler, errors>>

(* lines 84-85: an event without a "message" key *)
webhook_skip ==
    /\ handler = "webhook"
    /\ pending > 0
    /\ pending' = pending - 1
    /\ last' = Step("skipped")
    /\ UNCHANGED <<sender_map, clock, slept, cleanup_task, app, handler, errors>>

(* variant: the session is written after the backend call has returned, *)
(* and only when the call succeeded                                      *)
webhook_message_UpsertLast(sender, outcome, took) ==
    /\ handler = "webhook"
    /\ pending > 0
    /\ clock + took \in Instants
    /\ LET sender_id == sender
           chat_id == sender_id
           now == clock + took
           raised == outcome # "success" /\ DxCallRaises(outcome)
       IN  /\ sender_map' = IF outcome = "success"
                            THEN Upsert(sender_map, chat_id, sender_id, now)
                            ELSE sender_map
           /\ errors' = IF outcome = "success" THEN errors ELSE errors + 1
           /\ handler' = IF raised THEN "idle" ELSE "webhook"
           /\ pending' = IF raised THEN 0 ELSE pending - 1
           /\ last' = [Step("message") EXCEPT
                          !.chat_id = chat_id, !.sender_id = sender_id, !.now = now,
                          !.before = DictGet(sender_map, chat_id),
                          !.outcome = outcome, !.attempts = 1,
                          !.status = IF raised THEN "500" ELSE NONE]
    /\ clock' = clock + took
    /\ slept' = Sleep(took)
    /\ UNCHANGED <<cleanup_task, app>>

(* lines 87-140: an event with a "message" key. sender is event.sender.id, *)
(* outcome what the backend call does, took how long it blocks.            *)
webhook_message(sender, outcome, took) ==
    /\ handler = "webhook"
    /\ pending > 0
    /\ clock + took \in Instants
    /\ LET sender_id == sender
           chat_id == sender_id
           now == clock
           raised == outcome # "success" /\ DxCallRaises(outcome)
       IN  /\ sender_map' = Upsert(sender_map, chat_id, sender_id, now)
           /\ errors' = IF outcome = "success" THEN errors ELSE errors + 1
           /\ handler' = IF raised THEN "idle" ELSE "webhook"
           /\ pending' = IF raised THEN 0 ELSE pending - 1
           /\ last' = [Step("message") EXCEPT
                          !.chat_id = chat_id, !.sender_id = sender_id, !.now = now,
                          !.before = DictGet(sender_map, chat_id),
                          !.outcome = outcome, !.attempts = 1,
                          !.status = IF raised THEN "500" ELSE NONE]
    /\ clock' = clock + took
    /\ slept' = Sleep(took)
    /\ UNCHANGED <<cleanup_task, app>>

(* line 142 *)
webhook_return ==
    /\ handler = "webhook"
    /\ pending = 0
    /\ handler' = "idle"
    /\ errors' = 0
    /\ last' = [Step("webhook_return") EXCEPT !.status = "ok", !.errors = errors]
    /\ UNCHANGED <<sender_map, clock, slept, cleanup_task, app, pending>>

(* POST /dx-result *)
receive_dx_result(chat_id, text, outcome, took) ==
    /\ app = "serving"
    /\ handler = "idle"
    /\ LET r == DxResult(sender_map, chat_id, text, outcome)
           t == IF r.attempts = 0 THEN 0 ELSE took
       IN  /\ clock + t \in Instants
           /\ r.attempts = 0 => (outcome = "success" /\ took = 0)
           /\ sender_map' = r.store
           /\ clock' = clock + t
           /\ slept' = Sleep(t)
           /\ last' = [Step("dx_result") EXCEPT
                          !.chat_id = chat_id, !.sender_id = r.recipient,
                          !.before = DictGet(sender_map, chat_id),
                          !.outcome = r.outcome, !.attempts = r.attempts,
                          !.status = r.status, !.body = r.text]
    /\ UNCHANGED <<cleanup_task, app, handler, pending, errors>>

(* wall-clock and monotonic time pass while the event loop is idle *)
Tick(t) ==
    /\ handler = "idle"
    /\ t > clock
    /\ clock' = t
    /\ slept' = Sleep(t - clock)
    /\ last' = Step("tick")
    /\ UNCHANGED <<sender_map, cleanup_task, app, handler, pending, errors>>

(* time.time() is the system clock: it can be set back *)
ClockSetBack(t) ==
    /\ handler = "idle"
    /\ t < clock
    /\ clock' = t
    /\ last' = Step("clock_set_back")
    /\ UNCHANGED <<sender_map, slept, cleanup_task, app, handler, pending, errors>>

Next ==
    \/ Startup
    \/ Shutdown
    \/ cleanup_sessions
    \/ \E mode \in {"subscribe", "other"}, token \in {VERIFY_TOKEN, "wrong"} :
          webhook_get(mode, token, "abc")
    \/ \E object \in {"page", "user"}, n \in 0..MaxEvents : webhook_post(object, n)
    \/ webhook_skip
    \/ \E sender \in Ids, outcome \in Outcomes, took \in CallTimes :
          webhook_message(sender, outcome, took)
    \/ webhook_return
    \/ \E chat_id \in Ids \cup {NONE}, outcome \in Outcomes, took \in CallTimes :
          receive_dx_result(chat_id, "hello", outcome, took)
    \/ \E t \in Instants : Tick(t)
    \/ \E t \in Instants : ClockSetBack(t)

Spec == Init /\ [][Next]_vars

(* The loop of cleanup_sessions has no try statement: an exception raised  *)
(* in an iteration (a MemoryError while the list of expired ids is built   *)
(* or a line is logged) ends the coroutine, and the task is done with that *)
(* exception.  `popped` are the ids removed before the exception.          *)
cleanup_sessions_raises(popped) ==
    /\ handler = "idle"
    /\ \/ cleanup_task = "scheduled"
       \/ cleanup_task = "sleeping" /\ slept >= SLEEP_INTERVAL
    /\ popped \subseteq Expired(sender_map, clock)
    /\ popped # Expired(sender_map, clock) \/ popped = {}
    /\ sender_map' = RemoveAll(sender_map, popped)
    /\ last' = [Step("sweep_failed") EXCEPT !.now = clock, !.evicted = popped]
    /\ cleanup_task' = "failed"
    /\ slept' = 0
    /\ UNCHANGED <<clock, app, handler, pending, errors>>

NextFault ==
    \/ Next
    \/ \E popped \in SUBSET Ids : cleanup_sessions_raises(popped)

SpecFault == Init /\ [][NextFault]_vars

----------------------------------------------------------------------------
(* Properties *)

(* C1: last-write-wins. Right after an inbound message event has upserted *)
(* its conversation, a lookup of that conversation returns the sender_id  *)
(* and the last_active that this event wrote, whatever the store held for *)
(* the conversation before.                                               *)
C1_LastWriteWins ==
    last.op = "message" =>
        DictGet(sender_map, last.chat_id) =
            [sender_id |-> last.sender_id, last_active |-> last.now]

C1_Witness ==
    /\ last.op = "message"
    /\ last.before # NoneInfo
    /\ last.before.last_active # last.now
    /\ DictGet(sender_map, last.chat_id).last_active = last.now

(* C2: a cleanup pass run at time now removes every session of the store  *)
(* with now - last_active > SESSION_TIMEOUT; a lookup of it then finds no *)
(* session, and the pass reports it as evicted.                           *)
C2_SweepRemovesStale ==
    [][last'.op = "sweep" =>
          \A c \in DOMAIN sender_map :
              last'.now - sender_map[c].last_active > SESSION_TIMEOUT =>
                  /\ c \notin DOMAIN sender_map'
                  /\ DictGet(sender_map', c) = NoneInfo
                  /\ c \in last'.evicted]_vars

C2_Witness ==
    /\ last.op = "sweep"
    /\ last.evicted # {}
    /\ \A c \in last.evicted : DictGet(sender_map, c) = NoneInfo

(* C3: a cleanup pass run at time now keeps every session with           *)
(* now - last_active <= SESSION_TIMEOUT, the boundary included, with its  *)
(* sender_id and last_active unchanged.                                   *)
C3_SweepKeepsFresh ==
    [][last'.op = "sweep" =>
          \A c \in DOMAIN sender_map :
              last'.now - sender_map[c].last_active <= SESSION_TIMEOUT =>
                  /\ c \in DOMAIN sender_map'
                  /\ sender_map'[c] = sender_map[c]]_vars

C3_Witness ==
    /\ last.op = "sweep"
    /\ \E c \in DOMAIN sender_map :
           last.now - sender_map[c].last_active = SESSION_TIMEOUT

(* C4: a callback whose chat_id has no session in the store returns the   *)
(* status "missing-sender" and attempts no reply; it raises nothing.      *)
C4_MissingSender ==
    (last.op = "dx_result" /\ last.chat_id \notin DOMAIN sender_map) =>
        /\ last.status = "missing-sender"
        /\ last.attempts = 0
        /\ last.sender_id = NONE

C4_Witness ==
    /\ last.op = "dx_result"
    /\ last.chat_id \in Ids
    /\ last.chat_id \notin DOMAIN sender_map
    /\ DOMAIN sender_map # {}
    /\ last.status = "missing-sender"

(* C5: the webhook POST answers "ok" whatever the backend calls did: a    *)
(* failed call does not end the handler, which goes on to the next event  *)
(* and to its return.                                                     *)
C5_WebhookAlwaysOk ==
    /\ last.op = "message" => (last.status # "500" /\ handler = "webhook")
    /\ last.op = "webhook_return" => last.status = "ok"

C5_Witness ==
    /\ last.op = "webhook_return"
    /\ last.status = "ok"
    /\ last.errors >= 1

(* C6: an upsert touches its own key only. Every session of another       *)
(* conversation is still there afterwards, unchanged, so upserts to       *)
(* distinct conversations, in any order, are all visible, each under its  *)
(* own sender_id.                                                         *)
C6_DistinctUpsertsKept ==
    [][last'.op = "message" =>
          /\ \A c \in DOMAIN sender_map \ {last'.chat_id} :
                 c \in DOMAIN sender_map' /\ sender_map'[c] = sender_map[c]
          /\ \A c \in DOMAIN sender_map' : sender_map'[c].sender_id = c]_vars

C6_Witness ==
    /\ last.op = "message"
    /\ DOMAIN sender_map = Ids
    /\ \A c \in Ids : sender_map[c].sender_id = c

(* C7: the cleanup pass is idempotent. A second pass with the same now,   *)
(* right after a pass, finds nothing expired and leaves the store as the  *)
(* first pass left it.                                                    *)
C7_SweepIdempotent ==
    last.op = "sweep" =>
        /\ Expired(sender_map, last.now) = {}
        /\ CleanupPass(sender_map, last.now) = sender_map

C7_Witness ==
    /\ last.op = "sweep"
    /\ Cardinality(last.evicted) >= 2
    /\ DOMAIN sender_map # {}

(* C8: handling a backend callback leaves the store as it was, with or   *)
(* without a session for the chat_id and whatever the reply send did; in  *)
(* particular last_active is not refreshed.                               *)
C8_CallbackReadsOnly ==
    [][last'.op = "dx_result" => sender_map' = sender_map]_vars

C8_Witness ==
    /\ last.op = "dx_result"
    /\ last.status = "received"
    /\ last.outcome # "success"
    /\ sender_map[last.chat_id].last_active < clock

(* C9: shutdown cancels the cleanup task without touching the store, and  *)
(* once the task is cancelled no cleanup pass runs and no session is      *)
(* removed any more.                                                      *)
C9_NoSweepAfterCancel ==
    [][/\ last'.op = "shutdown" =>
              (cleanup_task' = "cancelled" /\ sender_map' = sender_map)
       /\ cleanup_task = "cancelled" =>
              /\ cleanup_task' = "cancelled"
              /\ last'.op # "sweep"
              /\ sender_map' = sender_map]_vars

C9_Witness ==
    /\ cleanup_task = "cancelled"
    /\ last.op = "tick"
    /\ Expired(sender_map, clock) # {}

(* C10: an iteration of the cleanup loop that raises is logged and the    *)
(* loop goes on: the task is then in its sleep, from which the next pass  *)
(* starts.                                                                *)
C10_LoopSurvivesFailure ==
    last.op = "sweep_failed" => cleanup_task = "sleeping"

(* C11: last_active never decreases across upserts of one conversation:  *)
(* a message event that overwrites a session writes a last_active that is *)
(* not smaller than the one it replaces.                                  *)
C11_LastActiveMonotone ==
    (last.op = "message" /\ last.before # NoneInfo) =>
        last.before.last_active <= DictGet(sender_map, last.chat_id).last_active

(* C12: only a cleanup pass deletes a key. Across every other step       *)
(* (verification, inbound event, callback, failed downstream call, clock  *)
(* and lifespan steps) each session of the store is still in the store.   *)
C12_OnlySweepDeletes ==
    [][\A c \in DOMAIN sender_map :
          c \notin DOMAIN sender_map' => last'.op = "sweep"]_vars

C12_Witness ==
    /\ last.op = "verify"
    /\ last.status = "403"
    /\ DOMAIN sender_map = Ids
    /\ \E c \in Ids : clock - sender_map[c].last_active >= SESSION_TIMEOUT


(* C13: GET /webhook answers 200 with the challenge as body exactly when  *)
(* hub.mode is "subscribe" and hub.verify_token is the configured token,  *)
(* and 403 in every other case; the store is the same before and after.   *)
C13_Verification ==
    [][last'.op = "verify" =>
          /\ sender_map' = sender_map
          /\ IF last'.mode = "subscribe" /\ last'.token = VERIFY_TOKEN
             THEN last'.status = "200" /\ last'.body = last'.challenge
             ELSE last'.status = "403"]_vars

C13_Witness ==
    /\ last.op = "verify"
    /\ last.status = "200"
    /\ last.body = "abc"
    /\ DOMAIN sender_map # {}


(* C14: an event without a "message" key is passed over: the store is    *)
(* unchanged, no backend call is attempted and nothing is logged as an    *)
(* error, the handler goes on with the events that remain, and its return *)
(* is still "ok".                                                         *)
C14_EventWithoutMessage ==
    [][/\ last'.op = "skipped" =>
              /\ sender_map' = sender_map
              /\ last'.attempts = 0
              /\ errors' = errors
              /\ handler' = "webhook"
              /\ pending' = pending - 1
       /\ (last.op = "skipped" /\ pending = 0) =>
              (last'.op = "webhook_return" /\ last'.status = "ok")]_vars

C14_Witness ==
    /\ last.op = "skipped"
    /\ pending > 0
    /\ DOMAIN sender_map # {}


(* C15: no retry and no re-raise. A message event makes exactly one       *)
(* backend call and the handler goes on; a callback that finds a session  *)
(* for its chat_id makes exactly one reply call and returns "received",   *)
(* whatever the call did.                                                 *)
C15_OneAttemptEach ==
    /\ last.op = "message" =>
           (last.attempts = 1 /\ last.status # "500" /\ handler = "webhook")
    /\ (last.op = "dx_result" /\ last.before # NoneInfo) =>
           (last.attempts = 1 /\ last.status = "received")

(* C18: a callback that finds a session for its chat_id sends one reply   *)
(* to the sender_id of that session, with the callback's ai_response as   *)
(* text, and returns "received" whatever the send did.                    *)
C18_ReplyToStoredSender ==
    (last.op = "dx_result" /\ last.before # NoneInfo) =>
        /\ last.status = "received"
        /\ last.sender_id = last.before.sender_id
        /\ last.body = "hello"
        /\ last.outcome \in Outcomes


(* C17: a cleanup pass decides and removes in one piece. Each session it  *)
(* removes is stale by the timestamp the store holds for it at the moment *)
(* of the removal (now - last_active > SESSION_TIMEOUT), and the sessions *)
(* it leaves are those of the store before the pass, unchanged: no upsert *)
(* falls between the test and the removals.                               *)
C17_SweepJudgesCurrentTimestamp ==
    [][last'.op = "sweep" =>
          /\ \A c \in DOMAIN sender_map \ DOMAIN sender_map' :
                 clock - sender_map[c].last_active > SESSION_TIMEOUT
          /\ DOMAIN sender_map' \subseteq DOMAIN sender_map
          /\ \A c \in DOMAIN sender_map' : sender_map'[c] = sender_map[c]
          /\ last'.evicted = DOMAIN sender_map \ DOMAIN sender_map'
          /\ last'.now = clock]_vars

C17_Witness ==
    /\ last.op = "sweep"
    /\ last.evicted # {}
    /\ \E c \in DOMAIN sender_map : sender_map[c].last_active > 0


(* C19: the upsert of a message event precedes its backend call and      *)
(* survives it. After the event, whatever the call did, the store holds   *)
(* the session of the event's chat_id, stamped with the time read before  *)
(* the call was made.                                                     *)
C19_UpsertBeforeDispatch ==
    [][last'.op = "message" =>
          /\ last'.attempts = 1
          /\ last'.chat_id \in DOMAIN sender_map'
          /\ sender_map'[last'.chat_id] =
                 [sender_id |-> last'.sender_id, last_active |-> clock]]_vars

C19_Witness ==
    /\ last.op = "message"
    /\ last.outcome # "success"
    /\ clock > last.now
    /\ last.before = NoneInfo
    /\ last.chat_id \in DOMAIN sender_map


----------------------------------------------------------------------------
(* Progress *)

(* Time goes on after the last instant at which the model reads the clock: *)
(* the clock value stays at that instant, the sleep of cleanup_sessions    *)
(* runs out.                                                               *)
TickBeyond ==
    /\ handler = "idle"
    /\ \A t \in Instants : t <= clock
    /\ cleanup_task = "sleeping"
    /\ slept < SLEEP_INTERVAL
    /\ slept' = Sleep(SLEEP_INTERVAL)
    /\ last' = Step("tick")
    /\ UNCHANGED <<sender_map, clock, cleanup_task, app, handler, pending, errors>>

(* the steps of the system while its clock is not set back *)
NextLive ==
    \/ Startup
    \/ Shutdown
    \/ cleanup_sessions
    \/ \E mode \in {"subscribe", "other"}, token \in {VERIFY_TOKEN, "wrong"} :
          webhook_get(mode, token, "abc")
    \/ \E object \in {"page", "user"}, n \in 0..MaxEvents : webhook_post(object, n)
    \/ webhook_skip
    \/ \E sender \in Ids, outcome \in Outcomes, took \in CallTimes :
          webhook_message(sender, outcome, took)
    \/ webhook_return
    \/ \E chat_id \in Ids \cup {NONE}, outcome \in Outcomes, took \in CallTimes :
          receive_dx_result(chat_id, "hello", outcome, took)
    \/ \E t \in Instants : Tick(t)
    \/ TickBeyond

(* time passes *)
TimeStep == (\E t \in Instants : Tick(t)) \/ TickBeyond

(* the webhook handler the event loop is in runs to its return *)
HandlerStep ==
    \/ webhook_skip
    \/ \E sender \in Ids, outcome \in Outcomes : webhook_message(sender, outcome, 0)
    \/ webhook_return

(* The event loop runs its ready callbacks in order: a handler that has   *)
(* started returns, and the cleanup task, once its sleep is over, gets    *)
(* its turn however many requests arrive.                                 *)
SpecLive ==
    /\ Init
    /\ [][NextLive]_vars
    /\ WF_vars(HandlerStep)
    /\ SF_vars(TimeStep)
    /\ SF_vars(cleanup_sessions)

(* the session of c has been idle for longer than the timeout *)
Stale(c) ==
    c \in DOMAIN sender_map /\ clock - sender_map[c].last_active > SESSION_TIMEOUT

(* C16: while the application serves and the cleanup task gets its turns, *)
(* a session idle for longer than the timeout is eventually removed from  *)
(* the store (a lookup then finds nothing), unless a new message of its   *)
(* conversation refreshes it first or the application shuts down.         *)
C16_EventualExpiry ==
    \A c \in Ids :
        (Stale(c) /\ app = "serving") ~>
            (DictGet(sender_map, c) = NoneInfo \/ ~Stale(c) \/ app = "stopped")

C16_Witness ==
    /\ last.op = "sweep"
    /\ app = "serving"
    /\ cleanup_task = "sleeping"
    /\ last.evicted # {}
    /\ \A c \in last.evicted : ~Stale(c) /\ c \notin DOMAIN sender_map

====
